---- MODULE Spec2Model ----
(***************************************************************************)
(* State-machine model of the two agent tools of the repository:           *)
(*   clone_repo  (src/agents/repo_cloner/agent.py)                         *)
(*   scrape_url  (src/agents/scraping_bee/agent.py)                        *)
(* One behaviour is one invocation of one of the two tools.  Strings are   *)
(* sequences of tokens (a token is a run of characters that the code never *)
(* splits); page text is represented by its character count.  Every call   *)
(* into the operating system or a library that can fail is a               *)
(* nondeterministic choice between its outcomes.                           *)
(***************************************************************************)
EXTENDS Integers, Sequences, FiniteSets, TLC

VARIABLES
  tool,           \* which tool this behaviour invokes
  pc,             \* position inside the invoked tool
  \* ---- clone_repo: arguments and environment
  git_on_path,    \* shutil.which("git") is not None
  repo_url, branch, depth, dest_dir, token, username_hint,
  \* ---- clone_repo: locals and the part of the world it touches
  tmp_holder,     \* "none" | "armed" | "detached" | "cleaned"
  parent_made,    \* dest_path.parent.mkdir(...) has run
  dest_path,
  env,            \* the entries added to the copy of os.environ
  cred_file,      \* the local cred_file: None or the file's name
  cred_fs,        \* the credential file on disk: [exists, mode, line]
  cred_created,   \* number of credential files created on disk
  unlink_error,   \* the finally block caught an OSError from unlink
  cmd, proc_started,
  run_outcome,    \* how subprocess.run ended ("none" before it ran)
  pending,        \* what the try block is about to do when finally runs
  result,         \* the returned dict (empty until the call returns)
  exc,            \* the exception that left the call ("none" if none)
  \* ---- scrape_url
  api_key, url_len, render_js, params, http_requests, response, parsed,
  text_content,   \* length of text_content after line 90 / line 95
  scrape_result   \* the returned string: [kind, status, body_len, len]

clone_vars == <<git_on_path, repo_url, branch, depth, dest_dir, token,
                username_hint, tmp_holder, parent_made, dest_path, env,
                cred_file, cred_fs, cred_created, unlink_error, cmd,
                proc_started, run_outcome, pending, result, exc>>
scrape_vars == <<api_key, url_len, render_js, params, http_requests,
                 response, parsed, text_content, scrape_result>>
vars == <<tool, pc, clone_vars, scrape_vars>>

-----------------------------------------------------------------------------
(* Python values *)

None == "<None>"

\* bool(x) of an Optional[str]: None and "" are falsy
Truthy(x) == x # None /\ x # ""

\* bool(depth) of an Optional[int], depth written in decimal: None and 0 are falsy
DepthTruthy(d) == d # None /\ d # "0"

-----------------------------------------------------------------------------
(* Input domains of clone_repo *)

UrlHosts == { <<"github.com">>, <<"gitlab.com">>, <<"api", ".", "github.com">> }
UrlPaths == { <<"u", "/", "p.git">>, <<"mirror", "/", "github.com", "/", "p.git">> }
RepoUrls == { <<"https:", "//">> \o h \o <<"/">> \o p : h \in UrlHosts, p \in UrlPaths }
Branches == { None, "main" }
Depths == { None, "0", "1" }
DestDirs == { None, "", "out/repo" }
Tokens == { None, "", "s3cr3t" }
UsernameHints == { None, "", "alice" }

\* permission bits; 0o666 is what open() asks for, the umask removes bits
AllBits == { "ur", "uw", "gr", "gw", "or", "ow" }
Umasks == { { "gw", "ow" }, { "gr", "gw", "or", "ow" } }

-----------------------------------------------------------------------------
(* Pure helpers of clone_repo *)

\* "github.com" in repo_url: substring test over the whole URL
ContainsGithub(url) == \E i \in DOMAIN url : url[i] = "github.com"

\* urlparse(repo_url).netloc: what lies between "//" and the next "/"
RECURSIVE UpToSlash(_)
UpToSlash(s) ==
  IF s = <<>> \/ Head(s) = "/" THEN <<>>
  ELSE <<Head(s)>> \o UpToSlash(Tail(s))

Netloc(url) ==
  IF Len(url) >= 2 /\ url[2] = "//" THEN UpToSlash(SubSeq(url, 3, Len(url)))
  ELSE <<>>

\* lines 72-77
Username(hint, url) ==
  IF Truthy(hint) THEN hint
  ELSE IF ContainsGithub(url) THEN "x-access-token"
  ELSE "oauth2"

\* line 85
CredLine(username, tok, host) ==
  <<"https://", username, ":", tok, "@">> \o host \o <<"\n">>

\* lines 93-97
GitEnv(file) ==
  [ GIT_TERMINAL_PROMPT |-> "0",
    GIT_ASKPASS |-> "echo",
    GIT_CREDENTIAL_HELPER |-> <<"store --file=", file>> ]

\* lines 100-105
BuildCmd(url, br, d, dest) ==
  <<"git", "clone">>
    \o (IF Truthy(br) THEN <<"--branch", br>> ELSE <<>>)
    \o (IF DepthTruthy(d)
          THEN <<"--depth", d, "--shallow-submodules", "--no-tags">>
          ELSE <<>>)
    \o url \o dest

\* lines 51-54
GitMissingResult ==
  [ success |-> FALSE, message |-> <<"git executable not found in PATH.">> ]

\* lines 121-125
SuccessResult(dest) ==
  [ success |-> TRUE,
    message |-> <<"Repository cloned to ">> \o dest,
    cloned_path |-> dest ]

CloneFailedResultWithPath(stderr) ==
  [ success |-> FALSE,
    message |-> <<"git clone failed: ", stderr>>,
    cloned_path |-> <<>> ]

\* lines 128-131
CloneFailedResult(stderr) ==
  [ success |-> FALSE, message |-> <<"git clone failed: ", stderr>> ]

\* the file system after open(..., "w") under a umask, before any write
FileMode(umask) == AllBits \ umask

\* 0o600
OwnerOnly == { "ur", "uw" }

HolderAfterRunAlwaysDetached(holder, outcome) ==
  IF holder = "armed" THEN "detached" ELSE holder

\* lines 117-119: the finalizer is detached only after a successful run
HolderAfterRun(holder, outcome) ==
  IF outcome = "exit0" /\ holder = "armed" THEN "detached" ELSE holder

UnlinkSkipped(fs, ok) == fs

\* line 136: unlink removes the file unless the OS refuses
Unlink(fs, ok) == IF ok THEN [fs EXCEPT !.exists = FALSE, !.line = <<>>] ELSE fs

NoFile == [ exists |-> FALSE, mode |-> {}, line |-> <<>> ]

-----------------------------------------------------------------------------
(* Input domains and pure helpers of scrape_url *)

\* bounds of the model
MaxUrlLen == 2
MaxTitleLen == 2
Slack == 1

\* line 93
MAX_CHARS == 25000

\* len("\n\n... (content truncated)"), line 95
MarkerLen == 25

ApiKeys == { None, "", "key" }
Statuses == { 100, 200, 204, 299, 304, 399, 400, 404, 499, 500, 599, 600 }
ContentTypes ==
  { <<>>,
    <<"text", "/", "html">>,
    <<"application", "/", "json">>,
    <<"application", "/", "ld+", "json">>,
    <<"application", "/", "octet-stream">> }

\* lengths of the extracted text: around 0, around MAX_CHARS and beyond the marker
TextLens ==
  (0 .. Slack)
    \cup ((MAX_CHARS - Slack) .. (MAX_CHARS + Slack))
    \cup ((MAX_CHARS + MarkerLen) .. (MAX_CHARS + MarkerLen + Slack))

\* a response of the scraping service; the text of a <title> is part of the
\* extracted text, and the body holds the text plus the title's tags
Responses ==
  { r \in
      { [ status |-> s, content_type |-> ct, text_len |-> n,
          has_title |-> ht, title_len |-> tl,
          body_len |-> n + (IF ht THEN 15 ELSE 0) ] :
          s \in Statuses, ct \in ContentTypes, n \in TextLens,
          ht \in BOOLEAN, tl \in {0, MaxTitleLen} } :
      /\ ~r.has_title => r.title_len = 0
      /\ r.title_len <= r.text_len }

NoResponse ==
  [ status |-> 0, content_type |-> <<>>, text_len |-> 0,
    has_title |-> FALSE, title_len |-> 0, body_len |-> 0 ]

\* requests.Response.ok: raise_for_status() raises for 400 <= status < 600
ResponseOk(status) == ~(400 <= status /\ status < 600)

IsFailureInverted(status) == ResponseOk(status)

\* line 68: if not response.ok
IsFailure(status) == ~ResponseOk(status)

\* line 74: content_type.startswith('text') or 'json' in content_type
Processable(ct) ==
  \/ (Len(ct) > 0 /\ ct[1] = "text")
  \/ \E i \in DOMAIN ct : ct[i] = "json"

TruncateNever(n) == n

\* lines 93-95
Truncate(n) == IF n > MAX_CHARS THEN MAX_CHARS + MarkerLen ELSE n

\* lines 98-102: "# {title}\n\nSource: {url}\n\n" or "Source: {url}\n\n"
HeaderLen(has_title, title_len, ulen) ==
  IF has_title THEN 2 + title_len + 10 + ulen + 2 ELSE 8 + ulen + 2

\* line 47
TimeoutMs(js) == IF js THEN 15000 ELSE 8000

\* lines 50-58
Params(key, ulen, js) ==
  [ api_key |-> key, url |-> ulen,
    render_js |-> (IF js THEN "true" ELSE "false"),
    premium_proxy |-> "true", block_ads |-> "true",
    block_resources |-> "true", timeout |-> TimeoutMs(js) ]

NoScrapeResult == [ kind |-> "none", status |-> 0, body_len |-> 0, len |-> 0 ]

\* the strings scrape_url returns, by kind and length; for a message that
\* embeds an exception's text the length is that of its fixed part
ErrorString(kind, n) == [ kind |-> kind, status |-> 0, body_len |-> 0, len |-> n ]

\* line 69: "Error: ScrapingBee API failed with status {code}: {text}"
HttpErrorString(r) ==
  [ kind |-> "http_error", status |-> r.status, body_len |-> r.body_len,
    len |-> 42 + 3 + 2 + r.body_len ]

\* lines 100-104
PageText(r, ulen) ==
  [ kind |-> "text", status |-> r.status, body_len |-> 0,
    len |-> HeaderLen(r.has_title, r.title_len, ulen) + Truncate(r.text_len) ]

-----------------------------------------------------------------------------
(* Initial states: the arguments of one call and the environment it runs in *)

CloneIdle ==
  /\ tmp_holder = "none" /\ parent_made = FALSE /\ dest_path = <<>>
  /\ env = <<>> /\ cred_file = None /\ cred_fs = NoFile
  /\ cred_created = 0 /\ unlink_error = FALSE
  /\ cmd = <<>> /\ proc_started = 0 /\ run_outcome = "none"
  /\ pending = [ kind |-> "none" ] /\ result = <<>> /\ exc = "none"

ScrapeIdle ==
  /\ params = <<>> /\ http_requests = 0 /\ response = NoResponse
  /\ parsed = FALSE /\ text_content = 0 /\ scrape_result = NoScrapeResult

InitClone ==
  /\ tool = "clone_repo" /\ pc = "check_git"
  /\ git_on_path \in BOOLEAN
  /\ repo_url \in RepoUrls /\ branch \in Branches /\ depth \in Depths
  /\ dest_dir \in DestDirs /\ token \in Tokens
  /\ username_hint \in UsernameHints
  /\ CloneIdle
  /\ api_key = None /\ url_len = 1 /\ render_js = TRUE /\ ScrapeIdle

InitScrape ==
  /\ tool = "scrape_url" /\ pc = "check_key"
  /\ api_key \in ApiKeys /\ url_len \in 1 .. MaxUrlLen /\ render_js \in BOOLEAN
  /\ ScrapeIdle
  /\ git_on_path = FALSE /\ repo_url = <<>> /\ branch = None /\ depth = None
  /\ dest_dir = None /\ token = None /\ username_hint = None
  /\ CloneIdle

Init == InitClone \/ InitScrape

-----------------------------------------------------------------------------
(* clone_repo *)

\* an exception leaves clone_repo from outside the try statement
Raise(e) == pc' = "raised" /\ exc' = e

CheckGitAfterDest ==
  /\ tool = "clone_repo" /\ pc = "check_git"
  /\ IF git_on_path
       THEN pc' = "dest" /\ UNCHANGED <<result, parent_made>>
       ELSE pc' = "returned" /\ result' = GitMissingResult /\ parent_made' = TRUE
  /\ UNCHANGED <<tool, git_on_path, repo_url, branch, depth, dest_dir, token,
                 username_hint, tmp_holder, dest_path, env, cred_file,
                 cred_fs, cred_created, unlink_error, cmd, proc_started, run_outcome,
                 pending, exc, scrape_vars>>

\* lines 48-54
CheckGit ==
  /\ tool = "clone_repo" /\ pc = "check_git"
  /\ IF git_on_path
       THEN pc' = "dest" /\ UNCHANGED result
       ELSE pc' = "returned" /\ result' = GitMissingResult
  /\ UNCHANGED <<tool, git_on_path, repo_url, branch, depth, dest_dir, token,
                 username_hint, tmp_holder, parent_made, dest_path, env,
                 cred_file, cred_fs, cred_created, unlink_error, cmd,
                 proc_started, run_outcome, pending, exc, scrape_vars>>

\* lines 56-64; mkdir and TemporaryDirectory raise OSError when the OS refuses
SetupDest ==
  /\ tool = "clone_repo" /\ pc = "dest"
  /\ \E ok \in BOOLEAN :
       IF ok
         THEN /\ pc' = "creds" /\ parent_made' = TRUE /\ UNCHANGED exc
              /\ IF Truthy(dest_dir)
                   THEN dest_path' = <<dest_dir>> /\ UNCHANGED tmp_holder
                   ELSE /\ tmp_holder' = "armed"
                        /\ dest_path' = <<"adk_clone_", "/", "repo">>
         ELSE /\ Raise("OSError")
              /\ UNCHANGED <<parent_made, dest_path, tmp_holder>>
  /\ UNCHANGED <<tool, git_on_path, repo_url, branch, depth, dest_dir, token,
                 username_hint, env, cred_file, cred_fs, cred_created,
                 unlink_error, cmd, proc_started, run_outcome, pending, result,
                 scrape_vars>>

\* lines 66-89; write_text opens the file (creating it under the umask) and
\* then writes: either step can raise OSError
WriteCred ==
  /\ tool = "clone_repo" /\ pc = "creds"
  /\ IF ~Truthy(token)
       THEN /\ pc' = "build"
            /\ UNCHANGED <<cred_file, cred_fs, cred_created, exc>>
       ELSE \E umask \in Umasks, outcome \in {"ok", "open_failed", "write_failed"} :
            /\ cred_file' = "git-cred-<hex>"
            /\ CASE outcome = "ok" ->
                      /\ cred_fs' = [ exists |-> TRUE, mode |-> FileMode(umask),
                                      line |-> CredLine(Username(username_hint, repo_url),
                                                        token, Netloc(repo_url)) ]
                      /\ cred_created' = cred_created + 1
                      /\ pc' = "chmod" /\ UNCHANGED exc
                 [] outcome = "write_failed" ->
                      /\ cred_fs' = [ exists |-> TRUE, mode |-> FileMode(umask),
                                      line |-> <<>> ]
                      /\ cred_created' = cred_created + 1
                      /\ Raise("OSError")
                 [] outcome = "open_failed" ->
                      /\ Raise("OSError")
                      /\ UNCHANGED <<cred_fs, cred_created>>
  /\ UNCHANGED <<tool, git_on_path, repo_url, branch, depth, dest_dir, token,
                 username_hint, tmp_holder, parent_made, dest_path, env,
                 unlink_error, cmd, proc_started, run_outcome, pending, result,
                 scrape_vars>>

\* lines 90-97
Chmod ==
  /\ tool = "clone_repo" /\ pc = "chmod"
  /\ \E ok \in BOOLEAN :
       IF ok
         THEN /\ cred_fs' = [cred_fs EXCEPT !.mode = OwnerOnly]
              /\ env' = GitEnv(cred_file)
              /\ pc' = "build" /\ UNCHANGED exc
         ELSE Raise("OSError") /\ UNCHANGED <<cred_fs, env>>
  /\ UNCHANGED <<tool, git_on_path, repo_url, branch, depth, dest_dir, token,
                 username_hint, tmp_holder, parent_made, dest_path, cred_file,
                 cred_created, unlink_error, cmd, proc_started, run_outcome, pending,
                 result, scrape_vars>>

\* lines 99-105
BuildCommand ==
  /\ tool = "clone_repo" /\ pc = "build"
  /\ cmd' = BuildCmd(repo_url, branch, depth, dest_path)
  /\ pc' = "run"
  /\ UNCHANGED <<tool, git_on_path, repo_url, branch, depth, dest_dir, token,
                 username_hint, tmp_holder, parent_made, dest_path, env,
                 cred_file, cred_fs, cred_created, unlink_error, proc_started, run_outcome,
                 pending, result, exc, scrape_vars>>

\* lines 107-131: subprocess.run exits 0, exits non-zero (CalledProcessError,
\* caught) or fails to start the process (OSError, not caught)
Run ==
  /\ tool = "clone_repo" /\ pc = "run"
  /\ \E outcome \in {"exit0", "nonzero", "oserror"}, stderr \in {"", "fatal: denied"} :
       /\ outcome # "nonzero" => stderr = ""
       /\ proc_started' = IF outcome = "oserror" THEN proc_started
                          ELSE proc_started + 1
       /\ run_outcome' = outcome
       /\ tmp_holder' = HolderAfterRun(tmp_holder, outcome)
       /\ pending' =
            CASE outcome = "exit0" ->
                   [ kind |-> "return", value |-> SuccessResult(dest_path) ]
              [] outcome = "nonzero" ->
                   [ kind |-> "return",
                     value |-> CloneFailedResult(IF stderr # "" THEN stderr
                                                 ELSE "str(CalledProcessError)") ]
              [] outcome = "oserror" ->
                   [ kind |-> "raise", value |-> "OSError" ]
  /\ pc' = "finally"
  /\ UNCHANGED <<tool, git_on_path, repo_url, branch, depth, dest_dir, token,
                 username_hint, parent_made, dest_path, env, cred_file,
                 cred_fs, cred_created, unlink_error, cmd, result, exc,
                 scrape_vars>>

\* lines 132-138, then the pending return or raise completes
Finally ==
  /\ tool = "clone_repo" /\ pc = "finally"
  /\ IF cred_file # None /\ cred_fs.exists
       THEN \E ok \in BOOLEAN :
              /\ cred_fs' = Unlink(cred_fs, ok)
              /\ unlink_error' = ~ok
       ELSE UNCHANGED <<cred_fs, unlink_error>>
  /\ IF pending.kind = "return"
       THEN pc' = "returned" /\ result' = pending.value /\ UNCHANGED exc
       ELSE pc' = "raised" /\ exc' = pending.value /\ UNCHANGED result
  /\ UNCHANGED <<tool, git_on_path, repo_url, branch, depth, dest_dir, token,
                 username_hint, tmp_holder, parent_made, dest_path, env,
                 cred_file, cred_created, cmd, proc_started, run_outcome, pending,
                 scrape_vars>>

\* line 62: a TemporaryDirectory whose finalizer is still attached removes the
\* directory once the object is dropped after the call
Finalizer ==
  /\ tool = "clone_repo" /\ pc \in {"returned", "raised"}
  /\ tmp_holder = "armed"
  /\ tmp_holder' = "cleaned"
  /\ UNCHANGED <<tool, pc, git_on_path, repo_url, branch, depth, dest_dir,
                 token, username_hint, parent_made, dest_path, env, cred_file,
                 cred_fs, cred_created, unlink_error, cmd, proc_started, run_outcome,
                 pending, result, exc, scrape_vars>>

-----------------------------------------------------------------------------
(* scrape_url *)

\* lines 41-58
CheckKey ==
  /\ tool = "scrape_url" /\ pc = "check_key"
  /\ IF ~Truthy(api_key)
       THEN /\ scrape_result' = ErrorString("no_api_key", 59)
            /\ pc' = "returned" /\ UNCHANGED params
       ELSE /\ params' = Params(api_key, url_len, render_js)
            /\ pc' = "request" /\ UNCHANGED scrape_result
  /\ UNCHANGED <<tool, clone_vars, api_key, url_len, render_js, http_requests,
                 response, parsed, text_content>>

\* lines 60-66 and 108-111: requests.get answers, times out or fails
Request ==
  /\ tool = "scrape_url" /\ pc = "request"
  /\ http_requests' = http_requests + 1
  /\ \/ /\ scrape_result' = ErrorString("timeout", 56)
        /\ pc' = "returned" /\ UNCHANGED response
     \/ /\ scrape_result' = ErrorString("request_exception", 44)
        /\ pc' = "returned" /\ UNCHANGED response
     \/ /\ \E r \in Responses : response' = r
        /\ pc' = "handle" /\ UNCHANGED scrape_result
  /\ UNCHANGED <<tool, clone_vars, api_key, url_len, render_js, params,
                 parsed, text_content>>

\* lines 68-106 and 112-113
HandleResponse ==
  /\ tool = "scrape_url" /\ pc = "handle"
  /\ pc' = "returned"
  /\ IF IsFailure(response.status)
       THEN /\ scrape_result' = HttpErrorString(response)
            /\ UNCHANGED <<parsed, text_content>>
       ELSE IF ~Processable(response.content_type)
         THEN /\ scrape_result' = ErrorString("binary", 46)
              /\ UNCHANGED <<parsed, text_content>>
         ELSE \E parse_ok \in BOOLEAN :
              /\ parsed' = TRUE
              /\ IF parse_ok
                   THEN /\ text_content' = Truncate(response.text_len)
                        /\ scrape_result' = PageText(response, url_len)
                   ELSE /\ scrape_result' = ErrorString("exception", 7)
                        /\ UNCHANGED text_content
  /\ UNCHANGED <<tool, clone_vars, api_key, url_len, render_js, params,
                 http_requests, response>>

-----------------------------------------------------------------------------

Next ==
  \/ CheckGit
  \/ SetupDest
  \/ WriteCred
  \/ Chmod
  \/ BuildCommand
  \/ Run
  \/ Finally
  \/ Finalizer
  \/ CheckKey
  \/ Request
  \/ HandleResponse

Spec == Init /\ [][Next]_vars

-----------------------------------------------------------------------------
(* Properties *)

Exited == pc \in {"returned", "raised"}
TokenOnDisk == cred_fs.exists /\ \E i \in DOMAIN cred_fs.line : cred_fs.line[i] = token
HostIsGithub(url) == Netloc(url) = <<"github.com">>

\* C1 as stated: in a call with a token, exactly one credential file has been
\* created when the git subprocess is about to start, and the file is absent
\* once the call has returned.
C1_AbsentAfterReturn ==
  (tool = "clone_repo" /\ Truthy(token)) =>
    /\ cred_created <= 1
    /\ (pc = "run" \/ proc_started > 0) => cred_created = 1
    /\ pc = "returned" => ~cred_fs.exists

\* C1 amended: in a call with a token, exactly one credential file has been
\* created when the git subprocess is about to start, and once the call has
\* returned the file is absent unless its deletion failed with an OSError,
\* which the finally block ignores.
C1_AbsentUnlessUnlinkFailed ==
  (tool = "clone_repo" /\ Truthy(token)) =>
    /\ cred_created <= 1
    /\ (pc = "run" \/ proc_started > 0) => cred_created = 1
    /\ pc = "returned" => (cred_fs.exists => unlink_error)

C1_Witness ==
  /\ tool = "clone_repo" /\ Truthy(token) /\ pc = "returned"
  /\ run_outcome = "nonzero" /\ proc_started = 1 /\ cred_created = 1
  /\ ~cred_fs.exists /\ ~unlink_error

\* C2: whenever a credential file has been created, it is gone when control
\* has left clone_repo, by return or by exception.
C2_CleanupOnEveryExit ==
  (tool = "clone_repo" /\ Exited /\ cred_created > 0) => ~cred_fs.exists

\* C3: no exception escapes clone_repo; every call that ends has returned a
\* dict with success and message.
C3_NoExceptionEscapes ==
  tool = "clone_repo" =>
    /\ pc # "raised"
    /\ pc = "returned" => {"success", "message"} \subseteq DOMAIN result

\* C4 as stated: for every response scrape_url handles, the returned text is
\* at most 25,000 characters plus the truncation marker.
C4_ReturnedLengthBound ==
  (tool = "scrape_url" /\ pc = "returned" /\ response # NoResponse) =>
    scrape_result.len <= MAX_CHARS + MarkerLen

\* C4 amended: for every response whose body is returned as page text, the
\* body part is at most 25,000 characters plus the truncation marker, and the
\* returned text is at most that plus the title/Source header put before it.
C4_BodyLengthBound ==
  (tool = "scrape_url" /\ pc = "returned" /\ scrape_result.kind = "text") =>
    /\ text_content <= MAX_CHARS + MarkerLen
    /\ scrape_result.len <=
         MAX_CHARS + MarkerLen
           + HeaderLen(response.has_title, response.title_len, url_len)

C4_Witness ==
  /\ tool = "scrape_url" /\ pc = "returned" /\ scrape_result.kind = "text"
  /\ response.text_len > MAX_CHARS + MarkerLen
  /\ text_content = MAX_CHARS + MarkerLen
  /\ scrape_result.len > MAX_CHARS + MarkerLen

\* C5: in every returned result cloned_path is present iff success is true; a
\* non-zero git exit and a missing git both give success = false, no path.
C5_ClonedPathIffSuccess ==
  (tool = "clone_repo" /\ pc = "returned") =>
    /\ ("cloned_path" \in DOMAIN result) <=> result.success
    /\ (run_outcome = "nonzero" \/ ~git_on_path) =>
         (~result.success /\ "cloned_path" \notin DOMAIN result)

C5_Witness ==
  /\ tool = "clone_repo" /\ pc = "returned" /\ run_outcome = "nonzero"
  /\ ~result.success /\ "cloned_path" \notin DOMAIN result

\* C6: without git on the search path the call returns the failure result in
\* its first step and nothing else happens: no parent directory, no temporary
\* directory, no credential file, no environment entry, no subprocess.
C6_NoSideEffectWithoutGit ==
  (tool = "clone_repo" /\ ~git_on_path) =>
    /\ pc \in {"check_git", "returned"}
    /\ pc = "returned" => (~result.success /\ DOMAIN result = {"success", "message"})
    /\ ~parent_made /\ tmp_holder = "none" /\ dest_path = <<>>
    /\ cred_created = 0 /\ ~cred_fs.exists /\ cred_file = None
    /\ DOMAIN env = {} /\ proc_started = 0 /\ run_outcome = "none"
    /\ exc = "none"

C6_Witness ==
  /\ tool = "clone_repo" /\ ~git_on_path /\ Truthy(token) /\ ~Truthy(dest_dir)
  /\ pc = "returned" /\ ~result.success

\* C7: the username in the credential record is username_hint if given, else
\* x-access-token exactly when the host of repo_url is github.com, else oauth2.
C7_UsernameByHost ==
  (tool = "clone_repo" /\ cred_fs.exists /\ cred_fs.line # <<>>) =>
    cred_fs.line[2] =
      IF Truthy(username_hint) THEN username_hint
      ELSE IF HostIsGithub(repo_url) THEN "x-access-token"
      ELSE "oauth2"

\* C8 as stated: every response whose status is outside 200..299 gives the
\* error string with status and body, and its body is never parsed.
C8_Non2xxIsError ==
  (tool = "scrape_url" /\ pc = "returned" /\ response # NoResponse
     /\ response.status \notin 200 .. 299) =>
    /\ scrape_result.kind = "http_error"
    /\ ~parsed

\* C8 amended: every response whose status is in 400..599 gives the error
\* string embedding that status and the response body, and its body is never
\* parsed nor returned as page text.
C8_ErrorStatusIsError ==
  (tool = "scrape_url" /\ pc = "returned" /\ response # NoResponse
     /\ response.status \in 400 .. 599) =>
    /\ scrape_result.kind = "http_error"
    /\ scrape_result.status = response.status
    /\ scrape_result.body_len = response.body_len
    /\ ~parsed /\ text_content = 0

C8_Witness ==
  /\ tool = "scrape_url" /\ pc = "returned" /\ response.status = 404
  /\ Processable(response.content_type)
  /\ scrape_result.kind = "http_error" /\ ~parsed

\* C9: the temporary directory's finalizer is detached only after a successful
\* clone into a temporary directory, a detached directory is never removed,
\* every other path leaves the finalizer attached, and a given dest_dir means
\* no temporary directory at all.
C9_DisarmedOnlyOnSuccess ==
  tool = "clone_repo" =>
    /\ Truthy(dest_dir) => tmp_holder = "none"
    /\ tmp_holder = "detached" => (run_outcome = "exit0" /\ ~Truthy(dest_dir))
    /\ (run_outcome = "exit0" /\ ~Truthy(dest_dir)) => tmp_holder = "detached"
    /\ (pc = "returned" /\ result.success /\ ~Truthy(dest_dir)) =>
         tmp_holder = "detached"
    /\ (Exited /\ run_outcome # "exit0" /\ git_on_path /\ parent_made
          /\ ~Truthy(dest_dir)) => tmp_holder \in {"armed", "cleaned"}

C9_Witness ==
  /\ tool = "clone_repo" /\ pc = "returned" /\ ~Truthy(dest_dir)
  /\ result.success /\ tmp_holder = "detached"

\* C10: whenever the credential file is on disk and holds the token, its
\* permissions are those of the owning user only.
C10_TokenOnlyOwnerReadable ==
  (tool = "clone_repo" /\ TokenOnDisk) => cred_fs.mode \subseteq OwnerOnly

====
